---- MODULE Spec2Model ----
(***************************************************************************)
(* The Zookeeper-backed coordination layer of atonixcorp-platform:         *)
(* ZookeeperClient (backend/core/zookeeper_client.py), DistributedLock and *)
(* TaskCoordinator (backend/core/distributed_lock.py), ConfigManager       *)
(* (backend/core/config_manager.py) and ServiceRegistry                    *)
(* (backend/core/service_discovery.py), over an ensemble that keeps a tree *)
(* of nodes, removes a session's ephemeral nodes when the session ends and *)
(* orders the contenders of a lock by sequence number.                     *)
(***************************************************************************)
EXTENDS Integers, Sequences, FiniteSets, TLC

\* ------------------------------------------------------------------ bounds
NumCallers == 3      \* threads calling into the lock / task layer
MaxSeq == 3          \* contender nodes ever created under the lock path
MaxEnded == 1        \* sessions that end, over all processes
MaxPending == 2      \* messages waiting for a consumer
MaxThreads == 2      \* consume loops of one consumer alive at once
MaxPublished == 3    \* messages published to the exchange

Callers == 1..NumCallers

\* The process a calling thread runs in: threads of one process share its
\* ZookeeperClient (get_zk_client), and so its session. Threads come in pairs.
ProcOf(c) == (c + 1) \div 2
Procs == {ProcOf(c) : c \in Callers}

VARIABLES
  \* the ensemble
  znodes,      \* path -> [data, owner]; owner <<0, 0>> for a persistent node
  lockNodes,   \* contender nodes under /locks/<name>: [seq, owner, caller]
  nextSeq,     \* the sequence number the next contender node gets
  reachable,   \* whether the ensemble answers
  watch,       \* per setting: the data watch left on its node, and its events
  \* a process: its ZookeeperClient
  connected,   \* ZookeeperClient.connected
  epoch,       \* the session the KazooClient is in; 0 before the first start()
  zkClient,    \* the module global _zk_client of a process; 0 for None
  handle,      \* per thread: the client object its get_zk_client() returned
  started,     \* the client objects that have a session open
  \* a calling thread
  pc,          \* where the thread is in acquire() / run_once()
  op,          \* the call it is in: "acquire" or "run_once"
  acquired,    \* DistributedLock._acquired of the thread's lock object
  myNode,      \* the contender node of the kazoo Lock the thread's acquire made
  result,      \* what the thread's last call returned or raised
  \* history
  holding,     \* acquire() returned True; no release(), no session loss since
  invoked,     \* how many times task_func has been invoked
  last,        \* the last configuration / registry call and its outcome
  written,     \* per setting: what the last completed set / remove left
  registered,  \* the registrations made: [inst, session], until unregistered
  \* the message consumers, the task queue, ZookeeperManager, calls in flight
  consumers,   \* per consumer class: running, its thread, what it handled
  mq,          \* the exchange's queue "tasks" and what was published
  zm,          \* ZookeeperManager: its config nodes, the cache, the data watch
  call         \* per process: the ZookeeperClient call it is in the middle of

ensVars == <<znodes, lockNodes, nextSeq, reachable, watch>>
procVars == <<connected, epoch>>
clientVars == <<zkClient, handle, started>>
callerVars == <<pc, op, acquired, myNode, result>>
histVars == <<holding, invoked, last, written, registered>>
auxVars == <<consumers, mq, zm, call>>
vars == <<znodes, lockNodes, nextSeq, reachable, watch, connected, epoch,
          zkClient, handle, started,
          pc, op, acquired, myNode, result, holding, invoked, last,
          written, registered, consumers, mq, zm, call>>

\* No call: the value of `last` before any, of `call` between calls.
NoCall == [op |-> "none"]

\* ------------------------------------------------------------------ paths
Persistent == <<0, 0>>
Session(p) == <<p, epoch[p]>>

TaskName == "nightly-report"
CompletionPath == <<"tasks", "completed", TaskName>>

Exists(path) == path \in DOMAIN znodes

\* The proper ancestors of a path, which create(makepath=True) makes.
Ancestors(path) == {SubSeq(path, 1, n) : n \in 1..(Len(path) - 1)}

\* ------------------------------------------------- Python values and JSON
\* A Python value is [t, r]: its type name and its repr; a dict is [t, items].
PyNone == [t |-> "NoneType", r |-> "None"]
PyBool(b) == [t |-> "bool", r |-> IF b THEN "True" ELSE "False"]
PyInt(s) == [t |-> "int", r |-> s]
PyFloat(s) == [t |-> "float", r |-> s]
PyStr(s) == [t |-> "str", r |-> s]
PyDict(f) == [t |-> "dict", items |-> f]
EmptyDict == PyDict([k \in {} |-> PyNone])
JSONDecodeError == [t |-> "JSONDecodeError", r |-> "Expecting value"]

\* bool(v), as `if config:` and `metadata or {}` take it.
Truthy(v) ==
  CASE v.t = "NoneType" -> FALSE
    [] v.t = "bool" -> v.r = "True"
    [] v.t = "int" -> v.r # "0"
    [] v.t = "float" -> v.r # "0.0"
    [] v.t = "str" -> v.r # ""
    [] v.t = "dict" -> DOMAIN v.items # {}
    [] OTHER -> TRUE

\* json.dumps: the JSON text of a value, as the tokens of the JSON grammar.
RECURSIVE json_dumps(_)
json_dumps(v) ==
  CASE v.t = "NoneType" -> [j |-> "null", s |-> "null"]
    [] v.t = "bool" -> IF v.r = "True" THEN [j |-> "true", s |-> "true"]
                                       ELSE [j |-> "false", s |-> "false"]
    [] v.t = "int" -> [j |-> "integer", s |-> v.r]
    [] v.t = "float" -> [j |-> "real", s |-> v.r]
    [] v.t = "str" -> [j |-> "string", s |-> v.r]
    [] v.t = "dict" -> [j |-> "object",
                        members |-> [k \in DOMAIN v.items |-> json_dumps(v.items[k])]]

\* What a node made by ensure_path / makepath holds: no bytes at all.
EmptyData == [j |-> "empty", s |-> ""]

\* json.loads: the value of a JSON text, or JSONDecodeError.
RECURSIVE json_loads(_)
json_loads(d) ==
  CASE d.j = "null" -> PyNone
    [] d.j = "true" -> PyBool(TRUE)
    [] d.j = "false" -> PyBool(FALSE)
    [] d.j = "integer" -> PyInt(d.s)
    [] d.j = "real" -> PyFloat(d.s)
    [] d.j = "string" -> PyStr(d.s)
    [] d.j = "object" -> PyDict([k \in DOMAIN d.members |-> json_loads(d.members[k])])
    [] OTHER -> JSONDecodeError

\* ------------------------------------------------------- ZookeeperClient
\* connect() raises when the client has no session and the ensemble is away.
ConnectFails(p) == ~connected[p] /\ ~reachable

\* `if not self.connected: self.connect()`: start() opens a new session.
ConnectOnUse(p) ==
  /\ connected' = [connected EXCEPT ![p] = connected[p] \/ reachable]
  /\ epoch' = IF ~connected[p] /\ reachable
                THEN [epoch EXCEPT ![p] = @ + 1] ELSE epoch

SessionAfterConnect(p) ==
  IF ~connected[p] /\ reachable THEN <<p, epoch[p] + 1>> ELSE Session(p)

\* How many sessions have ended so far: all of a process's sessions but the
\* one it is in.
RECURSIVE SessionsEnded(_)
SessionsEnded(ps) ==
  IF ps = {} THEN 0
  ELSE LET p == CHOOSE q \in ps : TRUE
       IN (IF connected[p] THEN epoch[p] - 1 ELSE epoch[p]) + SessionsEnded(ps \ {p})

Children(path) ==
  {q \in DOMAIN znodes : Len(q) = Len(path) + 1 /\ SubSeq(q, 1, Len(path)) = path}

\* Mutant: an existing node takes the persistence mode asked for.
SetConfigNodesRemade(path, data, ephemeral, owner) ==
  [q \in DOMAIN znodes \cup Ancestors(path) \cup {path} |->
     IF q = path
       THEN [data |-> json_dumps(data), owner |-> IF ephemeral THEN owner ELSE Persistent]
       ELSE IF q \in DOMAIN znodes THEN znodes[q]
       ELSE [data |-> EmptyData, owner |-> Persistent]]

\* The tree after set_config(path, data, ephemeral) by a client in session
\* `owner`: set() on a node that exists, create(makepath=True) otherwise.
SetConfigNodes(path, data, ephemeral, owner) ==
  IF Exists(path)
    THEN [znodes EXCEPT ![path] = [data |-> json_dumps(data), owner |-> @.owner]]
    ELSE [q \in DOMAIN znodes \cup Ancestors(path) \cup {path} |->
            IF q \in DOMAIN znodes THEN znodes[q]
            ELSE IF q = path
              THEN [data |-> json_dumps(data),
                    owner |-> IF ephemeral THEN owner ELSE Persistent]
              ELSE [data |-> EmptyData, owner |-> Persistent]]

\* A node that is not there.
NoNode == [data |-> EmptyData, owner |-> Persistent]

\* ZookeeperClient.set_config(path, data, ephemeral) called in process p;
\* whatever goes wrong is re-raised.
SetConfig(p, path, data, ephemeral) ==
  /\ ConnectOnUse(p)
  /\ znodes' = IF reachable
                 THEN SetConfigNodes(path, data, ephemeral, SessionAfterConnect(p))
                 ELSE znodes
  /\ UNCHANGED <<auxVars, clientVars, lockNodes, nextSeq, reachable, watch, callerVars,
                 holding, invoked, written, registered>>
  /\ last' = [op |-> "set_config", proc |-> p, path |-> path, data |-> data,
              ephemeral |-> ephemeral, up |-> reachable, raised |-> ~reachable,
              existed |-> Exists(path),
              session |-> SessionAfterConnect(p),
              before |-> IF Exists(path) THEN znodes[path] ELSE NoNode,
              after |-> IF path \in DOMAIN znodes' THEN znodes'[path] ELSE NoNode,
              others |-> \A q \in DOMAIN znodes \ {path} :
                           q \in DOMAIN znodes' /\ znodes'[q] = znodes[q]]

\* Mutant: a payload that does not parse is handed on as it is.
GetConfigNoCatch(path, default) ==
  IF reachable /\ Exists(path) THEN json_loads(znodes[path].data) ELSE default

\* What get_config(path, default) returns on a connected client: every
\* failure inside its try (no answer, bad JSON) gives the default.
GetConfig(path, default) ==
  IF reachable /\ Exists(path)
    THEN LET v == json_loads(znodes[path].data)
         IN IF v.t = "JSONDecodeError" THEN default ELSE v
    ELSE default

\* ZookeeperClient.get_config(path, default) called in process p: connect()
\* sits before the try and its failure comes out.
GetConfigCall(p, path, default) ==
  /\ ConnectOnUse(p)
  /\ last' = [op |-> "get_config", proc |-> p, path |-> path, default |-> default,
              up |-> reachable, cf |-> ConnectFails(p),
              absent |-> ~Exists(path),
              payload |-> IF Exists(path) THEN znodes[path].data ELSE EmptyData,
              raised |-> ConnectFails(p),
              value |-> IF ConnectFails(p) THEN PyNone ELSE GetConfig(path, default)]
  /\ UNCHANGED <<auxVars, clientVars, ensVars, callerVars, holding, invoked, written, registered>>

\* The tree after delete_node(path): NoNodeError is caught and changes nothing.
DeleteNodeNodes(path) ==
  IF Exists(path) THEN [q \in DOMAIN znodes \ {path} |-> znodes[q]] ELSE znodes

\* ------------------------------------------------------- get_zk_client
\* A client object is named after the thread that constructed it.
\*   if _zk_client is None:
GetZkClientTest(c) ==
  /\ pc[c] = "idle"
  /\ op' = [op EXCEPT ![c] = "get_zk_client"]
  /\ pc' = [pc EXCEPT ![c] = IF zkClient[ProcOf(c)] = 0 THEN "gzc_new" ELSE "gzc_return"]
  /\ UNCHANGED <<auxVars, ensVars, procVars, clientVars, acquired, myNode, result, histVars>>

\*       _zk_client = ZookeeperClient()
GetZkClientAssign(c) ==
  /\ pc[c] = "gzc_new"
  /\ zkClient' = [zkClient EXCEPT ![ProcOf(c)] = c]
  /\ pc' = [pc EXCEPT ![c] = "gzc_return"]
  /\ UNCHANGED <<auxVars, ensVars, procVars, handle, started, op, acquired, myNode, result, histVars>>

\*   return _zk_client
\* into the zk_client attribute of the component the thread is constructing.
GetZkClientReturn(c) ==
  /\ pc[c] = "gzc_return"
  /\ handle' = [handle EXCEPT ![c] = zkClient[ProcOf(c)]]
  /\ pc' = [pc EXCEPT ![c] = "idle"]
  /\ UNCHANGED <<auxVars, ensVars, procVars, zkClient, started, op, acquired, myNode, result, histVars>>

\* The thread's component makes its first call: `if not self.connected:
\* self.connect()` on the client object it holds, and start() opens a session.
ConnectOnFirstUse(c) ==
  /\ pc[c] = "idle"
  /\ handle[c] # 0
  /\ handle[c] \notin started
  /\ reachable
  /\ started' = started \cup {handle[c]}
  /\ UNCHANGED <<auxVars, ensVars, procVars, zkClient, handle, callerVars, histVars>>

\* The sessions a process has open.
OpenSessions(p) == {o \in started : ProcOf(o) = p}

\* ------------------------------------------------------------- the lock
\* kazoo's Lock recipe, as acquire_lock and release_lock use it: acquire()
\* creates an ephemeral sequential contender node under the lock path and
\* returns True once no contender with a lower sequence number exists.
NodeOf(c) == {n \in lockNodes : n.seq = myNode[c]}
HasPredecessor(c) == \E n \in lockNodes : n.seq < myNode[c]

\* Mutant: the contenders compared the wrong way round.
NoPredecessorReversed(c) == ~\E n \in lockNodes : n.seq > myNode[c]

\* Lock._get_predecessor(node) is None
NoPredecessor(c) == ~HasPredecessor(c)

\* Lock._inner_acquire: client.create(create_path, ephemeral=True, sequence=True)
Contend(c, session) ==
  /\ nextSeq <= MaxSeq
  /\ lockNodes' = lockNodes \cup {[seq |-> nextSeq, owner |-> session, caller |-> c]}
  /\ nextSeq' = nextSeq + 1
  /\ myNode' = [myNode EXCEPT ![c] = nextSeq]

\* Mutant: distributed_lock passes acquire()'s False on and raises nothing.
AcquireFailedReturnsFalse(o) == "False"

\* What the caller gets when the acquire() inside call `o` comes back False:
\* run_once (through distributed_lock) turns it into RuntimeError.
AcquireFailed(o) == IF o = "run_once" THEN "RuntimeError" ELSE "False"

\* DistributedLock.acquire() -> ZookeeperClient.acquire_lock() up to the point
\* where the kazoo Lock has entered the contest; `o` is the call it is made in.
\* run_once makes a new DistributedLock (_acquired False) first.
BeginAcquire(c, o) ==
  LET p == ProcOf(c) IN
  /\ pc[c] = "idle"
  /\ op' = [op EXCEPT ![c] = o]
  /\ ConnectOnUse(p)
  /\ IF reachable
       THEN /\ Contend(c, SessionAfterConnect(p))
            /\ pc' = [pc EXCEPT ![c] = "waiting"]
            /\ acquired' = IF o = "run_once"
                             THEN [acquired EXCEPT ![c] = FALSE] ELSE acquired
            /\ UNCHANGED result
       ELSE \* connect() raises (acquire catches it, _acquired untouched), or
            \* the recipe gets no answer until its deadline and returns False
            /\ acquired' = IF o = "run_once" \/ connected[p]
                             THEN [acquired EXCEPT ![c] = FALSE] ELSE acquired
            /\ result' = [result EXCEPT ![c] = AcquireFailed(o)]
            /\ UNCHANGED <<pc, lockNodes, nextSeq, myNode>>
  \* acquire_lock itself: its connect() sits before its try
  /\ last' = IF reachable THEN last
             ELSE [op |-> "acquire_lock", proc |-> p, up |-> FALSE,
                   cf |-> ConnectFails(p), raised |-> ConnectFails(p)]
  /\ UNCHANGED <<auxVars, clientVars, watch, znodes, reachable, holding, invoked, written, registered>>

\* acquire() as a call of its own on the thread's DistributedLock object.
Acquire(c) == BeginAcquire(c, "acquire")

\* TaskCoordinator.run_once entering `with distributed_lock(lock_name, 60)`.
RunOnce(c) == BeginAcquire(c, "run_once")

\* lock.acquire(timeout) returns True: acquire_lock returns True and
\* DistributedLock.acquire sets _acquired.
Grant(c) ==
  /\ pc[c] = "waiting"
  /\ reachable
  /\ NodeOf(c) # {}
  /\ NoPredecessor(c)
  /\ acquired' = [acquired EXCEPT ![c] = TRUE]
  /\ holding' = [holding EXCEPT ![c] = TRUE]
  /\ pc' = [pc EXCEPT ![c] = IF op[c] = "run_once" THEN "locked" ELSE "idle"]
  /\ result' = [result EXCEPT ![c] = IF op[c] = "run_once" THEN @ ELSE "True"]
  \* acquire_lock returns and its kazoo Lock object is dropped
  /\ myNode' = [myNode EXCEPT ![c] = 0]
  /\ UNCHANGED <<auxVars, clientVars, ensVars, procVars, op, invoked, last, written, registered>>

\* Mutant: acquire_lock reports success whatever lock.acquire() returned.
TimeoutReturnsTrue(c) ==
  /\ pc[c] = "waiting"
  /\ HasPredecessor(c) \/ NodeOf(c) = {}
  /\ acquired' = [acquired EXCEPT ![c] = TRUE]
  /\ holding' = [holding EXCEPT ![c] = TRUE]
  /\ myNode' = [myNode EXCEPT ![c] = 0]
  /\ result' = [result EXCEPT ![c] = IF op[c] = "run_once" THEN @ ELSE "True"]
  /\ pc' = [pc EXCEPT ![c] = IF op[c] = "run_once" THEN "locked" ELSE "idle"]
  /\ UNCHANGED <<auxVars, clientVars, ensVars, procVars, op, invoked, last, written, registered>>

\* Mutant: the contender node is left behind when the wait times out.
TimeoutLeftovers(c) == lockNodes

\* The contender nodes after the recipe's _best_effort_cleanup: the node of
\* this attempt is deleted, if the ensemble can be reached.
CleanupNodes(c) == IF reachable THEN lockNodes \ NodeOf(c) ELSE lockNodes

\* The timeout passes while a predecessor is still there: LockTimeout, the
\* recipe's _best_effort_cleanup deletes the contender node, acquire_lock
\* returns False; inside run_once that is RuntimeError, and the finally's
\* release() finds _acquired False.
Timeout(c) ==
  /\ pc[c] = "waiting"
  /\ HasPredecessor(c) \/ NodeOf(c) = {}
  /\ lockNodes' = CleanupNodes(c)
  /\ myNode' = [myNode EXCEPT ![c] = 0]
  /\ acquired' = [acquired EXCEPT ![c] = FALSE]
  /\ result' = [result EXCEPT ![c] = AcquireFailed(op[c])]
  /\ pc' = [pc EXCEPT ![c] = "idle"]
  /\ UNCHANGED <<auxVars, clientVars, watch, znodes, nextSeq, reachable, procVars, op, histVars>>

\* The timeout passes only after every thread ahead in the queue has returned
\* from its call: the holder was not slow, the lock was simply never freed.
LateTimeout(c) ==
  /\ \A n \in lockNodes : n.seq < myNode[c] => pc[n.caller] = "idle"
  /\ Timeout(c)

\* A waiting thread whose contender node went with its session: the recipe's
\* retry creates a new one in the client's new session.
Recontend(c) ==
  /\ pc[c] = "waiting"
  /\ reachable
  /\ NodeOf(c) = {}
  /\ Contend(c, Session(ProcOf(c)))
  /\ UNCHANGED <<auxVars, clientVars, watch, znodes, reachable, procVars, pc, op, acquired, result, histVars>>

\* ZookeeperClient.release_lock: Lock(self.client, lock_path).release() on a
\* Lock made for the purpose. Lock._inner_release starts with
\* `if not self.is_acquired: return False`, and a new Lock has never acquired:
\* no node is deleted.
ReleaseLockNodes(c) == lockNodes

\* DistributedLock.release(), also as the finally of distributed_lock.
ReleaseEffect(c) ==
  LET p == ProcOf(c) IN
  IF acquired[c]
    THEN /\ ConnectOnUse(p)
         /\ lockNodes' = IF ConnectFails(p) THEN lockNodes ELSE ReleaseLockNodes(c)
         \* connect() raising skips `self._acquired = False`
         /\ acquired' = [acquired EXCEPT ![c] = ConnectFails(p)]
         /\ holding' = [holding EXCEPT ![c] = @ /\ ConnectFails(p)]
    ELSE /\ holding' = [holding EXCEPT ![c] = FALSE]
         /\ UNCHANGED <<connected, epoch, lockNodes, acquired>>

Release(c) ==
  /\ pc[c] = "idle"
  /\ acquired[c] \/ holding[c]
  /\ ReleaseEffect(c)
  /\ UNCHANGED <<auxVars, clientVars, watch, znodes, nextSeq, reachable, pc, op, myNode, result, invoked, last, written, registered>>

\* The ensemble expires the session of process p: its ephemeral nodes go, and
\* the KazooClient opens a new session by itself; ZookeeperClient.connected
\* and every _acquired flag stay as they are.
Expire(p) ==
  /\ connected[p]
  /\ SessionsEnded(Procs) < MaxEnded
  /\ lockNodes' = {n \in lockNodes : n.owner # Session(p)}
  /\ znodes' = [q \in {q \in DOMAIN znodes : znodes[q].owner # Session(p)} |-> znodes[q]]
  /\ epoch' = [epoch EXCEPT ![p] = @ + 1]
  /\ holding' = [c \in Callers |-> holding[c] /\ ProcOf(c) # p]
  /\ UNCHANGED <<auxVars, clientVars, watch, nextSeq, reachable, connected, callerVars, invoked, last, written, registered>>

\* ------------------------------------------------------ TaskCoordinator
\* Mutant: the record says success whatever task_func did.
CompletionDataAlwaysSuccess(success) ==
  PyDict([k \in {"completed_at", "duration", "success"} |->
            IF k = "success" THEN PyBool(TRUE) ELSE PyFloat("t")])

\* str(e) of the exception task_func raises.
ErrorText == "boom"

\* time.time() values are not told apart.
CompletionData(success) ==
  IF success
    THEN PyDict([k \in {"completed_at", "duration", "success"} |->
                   IF k = "success" THEN PyBool(TRUE) ELSE PyFloat("t")])
    ELSE PyDict([k \in {"completed_at", "duration", "success", "error"} |->
                   IF k = "success" THEN PyBool(FALSE)
                   ELSE IF k = "error" THEN PyStr(ErrorText) ELSE PyFloat("t")])

\* `if self.zk_client.get_config(completion_path):`
AlreadyCompleted == Truthy(GetConfig(CompletionPath, PyNone))

\* What is_completed() returns on a connected client:
\* `completion_data is not None and completion_data.get('success', False)`.
IsCompletedResult ==
  LET d == GetConfig(CompletionPath, PyNone) IN
  /\ d.t # "NoneType"
  /\ Truthy(IF "success" \in DOMAIN d.items THEN d.items["success"] ELSE PyBool(FALSE))

\* run_once with the lock held: the already-completed check. A record short-
\* circuits (return None through the finally); otherwise task_func starts.
CheckCompleted(c) ==
  /\ pc[c] = "locked"
  /\ IF AlreadyCompleted
       THEN /\ result' = [result EXCEPT ![c] = "None"]
            /\ pc' = [pc EXCEPT ![c] = "exiting"]
            /\ UNCHANGED invoked
       ELSE /\ pc' = [pc EXCEPT ![c] = "running"]
            /\ invoked' = invoked + 1
            /\ UNCHANGED result
  /\ UNCHANGED <<auxVars, clientVars, ensVars, procVars, op, acquired, myNode, holding, last, written, registered>>

\* task_func returns.
TaskReturns(c) ==
  /\ pc[c] = "running"
  /\ pc' = [pc EXCEPT ![c] = "record_ok"]
  /\ UNCHANGED <<auxVars, clientVars, ensVars, procVars, op, acquired, myNode, result, histVars>>

\* task_func raises.
TaskRaises(c) ==
  /\ pc[c] = "running"
  /\ pc' = [pc EXCEPT ![c] = "record_failed"]
  /\ UNCHANGED <<auxVars, clientVars, ensVars, procVars, op, acquired, myNode, result, histVars>>

\* run_once after task_func: set_config of the completion record, then the
\* return of task_func's result or the re-raise. With the ensemble away
\* set_config raises: raised in the try ("record_ok") it is caught by the
\* except branch ("record_error"), which writes the failure record with the
\* text of that exception - ErrorText stands for either text - and re-raises;
\* raised in the except branch it goes to the caller.
RecordCompletion(c) ==
  /\ pc[c] \in {"record_ok", "record_failed", "record_error"}
  /\ znodes' = IF reachable
                 THEN SetConfigNodes(CompletionPath, CompletionData(pc[c] = "record_ok"),
                                     FALSE, Session(ProcOf(c)))
                 ELSE znodes
  /\ result' = [result EXCEPT ![c] =
                  IF pc[c] = "record_ok"
                    THEN IF reachable THEN "value" ELSE @
                    ELSE "raised"]
  /\ pc' = [pc EXCEPT ![c] =
              IF pc[c] = "record_ok" /\ ~reachable THEN "record_error" ELSE "exiting"]
  /\ UNCHANGED <<auxVars, clientVars, watch, lockNodes, nextSeq, reachable, procVars, op, acquired, myNode, histVars>>

\* The finally of distributed_lock on the way out of run_once: lock.release().
ExitLock(c) ==
  /\ pc[c] = "exiting"
  /\ ReleaseEffect(c)
  /\ pc' = [pc EXCEPT ![c] = "idle"]
  /\ UNCHANGED <<auxVars, clientVars, watch, znodes, nextSeq, reachable, op, myNode, result, invoked, last, written, registered>>

\* TaskCoordinator.reset_task() called by thread c: delete_node of the record,
\* which swallows NoNodeError and re-raises the rest. `completed` is what
\* is_completed() gives right after, `seq` the sequence number the next
\* contender for the task lock will get.
ResetTask(c) ==
  LET p == ProcOf(c) IN
  /\ pc[c] = "idle"
  /\ ConnectOnUse(p)
  /\ znodes' = IF reachable THEN DeleteNodeNodes(CompletionPath) ELSE znodes
  /\ UNCHANGED <<auxVars, clientVars, watch, lockNodes, nextSeq, reachable, callerVars, holding, invoked, written, registered>>
  /\ last' = [op |-> "reset_task", proc |-> p, up |-> reachable,
              absent |-> ~Exists(CompletionPath),
              raised |-> ~reachable,
              changed |-> znodes' # znodes,
              completed |-> IsCompletedResult',
              seq |-> nextSeq]

\* -------------------------------------------------------- ConfigManager
AppName == "atonixcorp"
BasePath == <<"config", AppName>>
ConfigPath(key) == <<"config", AppName, key>>

Keys == {"feature_x", "page_size"}
\* The falsy JSON values, and two that are not.
SettingValues ==
  {PyNone, PyBool(FALSE), PyInt("0"), PyStr(""), PyBool(TRUE), PyInt("20")}
Defaults == {PyNone, PyStr("fallback")}

\* set_setting's config_data
ConfigData(value) ==
  PyDict([k \in {"value", "description", "type"} |->
            IF k = "value" THEN value
            ELSE IF k = "type" THEN PyStr(value.t) ELSE PyStr("")])

NeverSet == [st |-> "never", v |-> PyNone, by |-> 0]
Removed == [st |-> "removed", v |-> PyNone, by |-> 0]
WasSet(v, p) == [st |-> "set", v |-> v, by |-> p]

\* ---------------------------------------------------------------- watches
\* A data watch is what client.get(path, watch=watcher) leaves on a node: the
\* ensemble fires it once, on the node's next change or deletion, and forgets
\* it. `events` are the notifications on their way to the client, `seen` the
\* value the callback was last invoked with; `dirty` says that a data change
\* was committed after the registration and no callback has followed it.
NoWatch ==
  [registered |-> FALSE, proc |-> 0, armed |-> FALSE, events |-> <<>>,
   dirty |-> FALSE, seen |-> PyNone]

\* The ensemble fires the watch of a node, if one is set.
FireWatch(w, type) ==
  IF w.armed THEN [w EXCEPT !.armed = FALSE, !.events = Append(@, type)] ELSE w

\* The watches after set_config(path of key, ...) has been committed: set()
\* on an existing node is a data change; create() of an absent node fires no
\* data watch, as none can be set on an absent node.
WatchAfterSet(key) ==
  IF Exists(ConfigPath(key))
    THEN [watch EXCEPT ![key] =
            [FireWatch(@, "CHANGED") EXCEPT !.dirty = @ \/ watch[key].registered]]
    ELSE watch

\* The watches after delete_node(path of key) has been committed.
WatchAfterDelete(key) ==
  IF Exists(ConfigPath(key))
    THEN [watch EXCEPT ![key] = FireWatch(@, "DELETED")]
    ELSE watch

\* ConfigManager.watch_setting(key, callback) in process p, once per setting:
\* watch_config connects outside its try, logs NoNodeError and re-raises the
\* rest.
WatchSetting(p, key) ==
  /\ ~watch[key].registered
  /\ ConnectOnUse(p)
  /\ watch' = IF reachable /\ Exists(ConfigPath(key))
                THEN [watch EXCEPT ![key] = [NoWatch EXCEPT !.registered = TRUE,
                                                           !.proc = p,
                                                           !.armed = TRUE]]
                ELSE watch
  /\ last' = [op |-> "watch_setting", proc |-> p, key |-> key, up |-> reachable,
              absent |-> ~Exists(ConfigPath(key)), raised |-> ~reachable]
  /\ UNCHANGED <<auxVars, clientVars, znodes, lockNodes, nextSeq, reachable, callerVars,
                 holding, invoked, written, registered>>

\* The client of the watching process gets a notification and runs
\* watch_config's watcher(event): on CHANGED it reads the node with
\* get_config(path), which sets no watch, and calls the callback, for which
\* watch_setting's config_callback unwraps 'value'.
DeliverEvent(key) ==
  LET w == watch[key]
      config == GetConfig(ConfigPath(key), PyNone)
      called == /\ Head(w.events) = "CHANGED"
                /\ Truthy(config)
                /\ "value" \in DOMAIN config.items
  IN
  /\ w.events # <<>>
  /\ reachable
  /\ watch' = [watch EXCEPT ![key] =
                 [w EXCEPT !.events = Tail(@),
                           !.seen = IF called THEN config.items["value"] ELSE @,
                           !.dirty = @ /\ ~called]]
  /\ UNCHANGED <<auxVars, clientVars, znodes, lockNodes, nextSeq, reachable, procVars, callerVars, histVars>>

\* The ensemble goes away, or comes back.
Outage ==
  /\ reachable' = ~reachable
  /\ UNCHANGED <<auxVars, clientVars, watch, znodes, lockNodes, nextSeq, procVars, callerVars, histVars>>

\* Mutant: the value itself is tested for truth, not its presence.
GetSettingResultIfTruthy(config, default) ==
  IF Truthy(config) /\ config.t = "dict" /\ "value" \in DOMAIN config.items
     /\ Truthy(config.items["value"])
    THEN config.items["value"] ELSE default

\* Mutant: the caller's default is dropped.
GetSettingResultNoDefault(config, default) ==
  IF Truthy(config) /\ config.t = "dict" /\ "value" \in DOMAIN config.items
    THEN config.items["value"] ELSE PyNone

\* get_setting: `if config and 'value' in config: return config['value']`,
\* `return default` otherwise.
GetSettingResult(config, default) ==
  IF Truthy(config) /\ config.t = "dict" /\ "value" \in DOMAIN config.items
    THEN config.items["value"] ELSE default

\* ConfigManager.get_setting(key, default) in process p. get_config connects
\* outside its try, so a failing connect() comes out of get_setting.
GetSetting(p, key, default) ==
  /\ ConnectOnUse(p)
  /\ last' = [op |-> "get_setting", proc |-> p, key |-> key, default |-> default,
              up |-> reachable, cf |-> ConnectFails(p),
              absent |-> ~Exists(ConfigPath(key)), wrote |-> written[key],
              raised |-> ConnectFails(p),
              value |-> IF ConnectFails(p) THEN PyNone
                        ELSE GetSettingResult(GetConfig(ConfigPath(key), PyNone), default)]
  /\ UNCHANGED <<auxVars, clientVars, ensVars, callerVars, holding, invoked, written, registered>>

\* ConfigManager.set_setting(key, value) in process p: set_config re-raises
\* whatever goes wrong.
SetSetting(p, key, value) ==
  /\ ConnectOnUse(p)
  /\ znodes' = IF reachable
                 THEN SetConfigNodes(ConfigPath(key), ConfigData(value), FALSE,
                                     SessionAfterConnect(p))
                 ELSE znodes
  /\ written' = IF reachable THEN [written EXCEPT ![key] = WasSet(value, p)] ELSE written
  /\ last' = [op |-> "set_setting", proc |-> p, key |-> key, up |-> reachable,
              raised |-> ~reachable]
  /\ watch' = IF reachable THEN WatchAfterSet(key) ELSE watch
  /\ UNCHANGED <<auxVars, clientVars, lockNodes, nextSeq, reachable, callerVars, holding, invoked, registered>>

\* ConfigManager.remove_setting(key) in process p: delete_node swallows
\* NoNodeError and re-raises the rest.
RemoveSetting(p, key) ==
  /\ ConnectOnUse(p)
  /\ znodes' = IF reachable THEN DeleteNodeNodes(ConfigPath(key)) ELSE znodes
  /\ written' = IF reachable THEN [written EXCEPT ![key] = Removed] ELSE written
  /\ last' = [op |-> "remove_setting", proc |-> p, key |-> key, up |-> reachable,
              absent |-> ~Exists(ConfigPath(key)),
              raised |-> ~reachable,
              changed |-> znodes' # znodes]
  /\ watch' = IF reachable THEN WatchAfterDelete(key) ELSE watch
  /\ UNCHANGED <<auxVars, clientVars, lockNodes, nextSeq, reachable, callerVars, holding, invoked, registered>>

\* ZookeeperClient.get_children(path) on a connected client.
GetChildren(path) == IF reachable /\ Exists(path) THEN Children(path) ELSE {}

\* ConfigManager.get_all_settings() in process p: everything sits in one try.
GetAllSettings(p) ==
  LET names == IF ConnectFails(p) THEN {}
               ELSE {q[Len(q)] : q \in GetChildren(BasePath)}
      cfg(k) == GetConfig(ConfigPath(k), PyNone)
      kept == {k \in names : Truthy(cfg(k)) /\ cfg(k).t = "dict"
                             /\ "value" \in DOMAIN cfg(k).items}
  IN
  /\ ConnectOnUse(p)
  /\ last' = [op |-> "get_all_settings", proc |-> p, up |-> reachable,
              absent |-> ~Exists(BasePath), raised |-> FALSE,
              value |-> [k \in kept |-> cfg(k).items["value"]]]
  /\ UNCHANGED <<auxVars, clientVars, ensVars, callerVars, holding, invoked, written, registered>>

\* ------------------------------------------------------ ServiceRegistry
ServiceNames == {"backend"}
Hosts == {"web-1", "web-2"}
Ports == {"8000"}
Metadata == {PyNone, PyDict([k \in {"version"} |-> PyStr("1.0")])}

ServicePath(name) == <<"services", name>>

\* f"{host}:{port}"
HostPort(host, port) ==
  CASE host = "web-1" /\ port = "8000" -> "web-1:8000"
    [] host = "web-2" /\ port = "8000" -> "web-2:8000"
    [] host = "web-1" /\ port = "0" -> "web-1:0"

\* f"{service_path}/{host}:{port}"
NodePath(name, host, port) == <<"services", name, HostPort(host, port)>>

\* register_service's service_data, with `metadata or {}`
ServiceData(host, port, metadata) ==
  PyDict([k \in {"host", "port", "metadata"} |->
            IF k = "host" THEN PyStr(host)
            ELSE IF k = "port" THEN PyInt(port)
            ELSE IF Truthy(metadata) THEN metadata ELSE EmptyDict])

Instance(name, host, port) == [name |-> name, host |-> host, port |-> port]

\* The instance a discovered payload stands for.
InstanceOf(name, payload) ==
  Instance(name, payload.items["host"].r, payload.items["port"].r)

\* A registration whose session is still the one its process is in.
Live(r) == connected[r.session[1]] /\ r.session = Session(r.session[1])
LiveInstances == {r.inst : r \in {x \in registered : Live(x)}}

\* Mutant: the instance node is created persistent.
RegisterServiceNodesPersistent(name, host, port, metadata, session) ==
  SetConfigNodes(NodePath(name, host, port), ServiceData(host, port, metadata),
                 FALSE, session)

\* The tree after ZookeeperClient.register_service: ensure_path(service_path),
\* then set_config(node_path, service_data, ephemeral=True), whose
\* create(makepath=True) would make the same ancestors.
RegisterServiceNodes(name, host, port, metadata, session) ==
  SetConfigNodes(NodePath(name, host, port), ServiceData(host, port, metadata),
                 TRUE, session)

\* ServiceRegistry.register_service in process p: every failure is re-raised.
RegisterService(p, name, host, port, metadata) ==
  /\ ConnectOnUse(p)
  /\ znodes' = IF reachable
                 THEN RegisterServiceNodes(name, host, port, metadata,
                                           SessionAfterConnect(p))
                 ELSE znodes
  /\ registered' = IF reachable
                     THEN registered \cup {[inst |-> Instance(name, host, port),
                                            session |-> SessionAfterConnect(p)]}
                     ELSE registered
  /\ last' = [op |-> "register_service", proc |-> p, name |-> name,
              up |-> reachable, raised |-> ~reachable]
  /\ UNCHANGED <<auxVars, clientVars, watch, lockNodes, nextSeq, reachable, callerVars, holding, invoked, written>>

\* The orders in which get_children may list a set of children.
Orderings(S) ==
  {f \in [1..Cardinality(S) -> S] : \A i, j \in 1..Cardinality(S) : f[i] = f[j] => i = j}

\* Mutant: no exists() check and no try around the listing.
DiscoverRaisesUnguarded(p, name) == ConnectFails(p) \/ ~Exists(ServicePath(name))

\* Whether ServiceRegistry.discover_service raises: discover_services has the
\* listing in a try, and discover_service catches the failing connect().
DiscoverRaises(p, name) == FALSE

\* ServiceRegistry.discover_service(name) in process p: the payloads of the
\* children of /services/<name> that get_config gives a truthy value for.
DiscoverService(p, name) ==
  LET children == IF ConnectFails(p) THEN {} ELSE GetChildren(ServicePath(name))
      found == {q \in children : Truthy(GetConfig(q, PyNone))}
  IN
  /\ ConnectOnUse(p)
  /\ \E order \in Orderings(found) :
       last' = [op |-> "discover_service", proc |-> p, name |-> name,
                up |-> reachable, cf |-> ConnectFails(p),
                none |-> Children(ServicePath(name)) = {},
                live |-> LiveInstances,
                raised |-> DiscoverRaises(p, name),
                value |-> [i \in 1..Cardinality(found) |-> GetConfig(order[i], PyNone)]]
  /\ UNCHANGED <<auxVars, clientVars, ensVars, callerVars, holding, invoked, written, registered>>

\* dict.get(key)
DictGet(d, key) == IF key \in DOMAIN d.items THEN d.items[key] ELSE PyNone

\* f"{protocol}://{host}:{port}", as its pieces
Url(protocol, host, port) == <<protocol, "://", host.r, ":", port.r>>

\* get_service_url after discover_service: None for no instances, the URL of
\* services[0] `if host and port`, None otherwise.
GetServiceUrlResult(services, protocol) ==
  IF services = <<>> THEN PyNone
  ELSE LET service == services[1]
           host == DictGet(service, "host")
           port == DictGet(service, "port")
       IN IF Truthy(host) /\ Truthy(port) THEN Url(protocol, host, port) ELSE PyNone

\* ServiceRegistry.get_service_url(name, protocol) in process p.
GetServiceUrl(p, name, protocol) ==
  LET children == IF ConnectFails(p) THEN {} ELSE GetChildren(ServicePath(name))
      found == {q \in children : Truthy(GetConfig(q, PyNone))}
  IN
  /\ ConnectOnUse(p)
  /\ \E order \in Orderings(found) :
       LET services == [i \in 1..Cardinality(found) |-> GetConfig(order[i], PyNone)] IN
       last' = [op |-> "get_service_url", proc |-> p, name |-> name,
                protocol |-> protocol, up |-> reachable,
                services |-> services, raised |-> FALSE,
                value |-> GetServiceUrlResult(services, protocol)]
  /\ UNCHANGED <<auxVars, clientVars, ensVars, callerVars, holding, invoked, written, registered>>

\* ServiceRegistry.unregister_service in process p: delete_node, with every
\* failure logged and dropped.
UnregisterService(p, name, host, port) ==
  /\ ConnectOnUse(p)
  /\ znodes' = IF reachable THEN DeleteNodeNodes(NodePath(name, host, port)) ELSE znodes
  /\ registered' = IF reachable
                     THEN {r \in registered : r.inst # Instance(name, host, port)}
                     ELSE registered
  /\ last' = [op |-> "unregister_service", proc |-> p, name |-> name,
              up |-> reachable, raised |-> FALSE]
  /\ UNCHANGED <<auxVars, clientVars, watch, lockNodes, nextSeq, reachable, callerVars, holding, invoked, written>>

\* What a process has at the ensemble: the connected flag of its client, the
\* session the client is in, and the ephemeral nodes its sessions own.
SessionState(p) ==
  [flag |-> connected[p],
   session |-> epoch[p],
   nodes |-> {q \in DOMAIN znodes : znodes[q].owner[1] = p},
   locks |-> {n \in lockNodes : n.owner[1] = p}]

\* Mutant: connect() stops and restarts the client whatever its state.
ConnectAlwaysRestarts(p) ==
  /\ reachable
  /\ SessionsEnded(Procs) < MaxEnded
  /\ connected' = [connected EXCEPT ![p] = TRUE]
  /\ epoch' = [epoch EXCEPT ![p] = @ + 1]
  /\ lockNodes' = {n \in lockNodes : n.owner # Session(p)}
  /\ znodes' = [q \in {q \in DOMAIN znodes : znodes[q].owner # Session(p)} |-> znodes[q]]
  /\ holding' = [c \in Callers |-> holding[c] /\ ProcOf(c) # p]
  /\ UNCHANGED <<auxVars, clientVars, watch, nextSeq, reachable, callerVars, invoked, written, registered>>
  /\ last' = [op |-> "connect", proc |-> p, was |-> connected[p], up |-> reachable,
              raised |-> FALSE,
              before |-> SessionState(p), after |-> SessionState(p)']

\* ZookeeperClient.connect() called in process p. client.start() returns at
\* once on a client whose session is live and opens a session on a client
\* that has none. With the ensemble away it gives up after its timeout, stops
\* the client and raises: connected becomes False, and a session the client
\* was in has expired by then, the start timeout being the session timeout.
Connect(p) ==
  /\ (connected[p] /\ ~reachable) => SessionsEnded(Procs) < MaxEnded
  /\ connected' = [connected EXCEPT ![p] = reachable]
  /\ epoch' = IF ~connected[p] /\ reachable THEN [epoch EXCEPT ![p] = @ + 1] ELSE epoch
  /\ lockNodes' = IF connected[p] /\ ~reachable
                    THEN {n \in lockNodes : n.owner # Session(p)} ELSE lockNodes
  /\ znodes' = IF connected[p] /\ ~reachable
                 THEN [q \in {q \in DOMAIN znodes : znodes[q].owner # Session(p)} |-> znodes[q]]
                 ELSE znodes
  /\ holding' = IF connected[p] /\ ~reachable
                  THEN [c \in Callers |-> holding[c] /\ ProcOf(c) # p] ELSE holding
  /\ UNCHANGED <<auxVars, clientVars, watch, nextSeq, reachable, callerVars, invoked, written, registered>>
  /\ last' = [op |-> "connect", proc |-> p, was |-> connected[p], up |-> reachable,
              raised |-> ~reachable,
              before |-> SessionState(p), after |-> SessionState(p)']

\* ZookeeperClient.disconnect() in process p (close_zk_client, or the end of a
\* management command): `if self.connected:` client.stop() closes the session
\* and the ensemble removes its ephemeral nodes; on a client that is not
\* connected nothing is done. During an outage a session ends by expiry.
Disconnect(p) ==
  /\ connected[p] => (reachable /\ SessionsEnded(Procs) < MaxEnded)
  /\ connected' = [connected EXCEPT ![p] = FALSE]
  /\ lockNodes' = IF connected[p]
                    THEN {n \in lockNodes : n.owner # Session(p)} ELSE lockNodes
  /\ znodes' = IF connected[p]
                 THEN [q \in {q \in DOMAIN znodes : znodes[q].owner # Session(p)} |-> znodes[q]]
                 ELSE znodes
  /\ holding' = IF connected[p]
                  THEN [c \in Callers |-> holding[c] /\ ProcOf(c) # p] ELSE holding
  /\ UNCHANGED <<auxVars, clientVars, watch, nextSeq, reachable, epoch, callerVars, invoked, written, registered>>
  /\ last' = [op |-> "disconnect", proc |-> p, was |-> connected[p], up |-> reachable,
              raised |-> FALSE,
              before |-> SessionState(p), after |-> SessionState(p)']

\* ------------------------------------- EventConsumer and MessageConsumer
\* kafka_client.EventConsumer and rabbitmq_client.MessageConsumer are built
\* alike: start_consuming() starts a daemon thread that runs _consume_loop,
\* which blocks in consume_messages (`for message in consumer`, or the
\* channel's start_consuming()); stop_consuming() clears the flag `running`
\* and joins the thread for five seconds.
Consumers == {"EventConsumer", "MessageConsumer"}

\* __init__: not running, no thread. `threads` counts the consume loops
\* alive, `stopped` says stop_consuming() has returned since the last start,
\* `pending` holds, for each message not yet delivered, whether it arrived
\* after that return, `handledLate` whether a handler got such a message.
NewConsumer == [running |-> FALSE, threads |-> 0, stopped |-> FALSE,
                pending |-> <<>>, handledLate |-> FALSE]

\* start_consuming(): returns at once when running, else sets the flag and
\* starts a thread, whether or not an earlier loop is still alive.
StartConsuming(k) ==
  /\ ~consumers[k].running
  /\ consumers[k].threads < MaxThreads
  /\ consumers' = [consumers EXCEPT ![k].running = TRUE,
                                    ![k].threads = @ + 1,
                                    ![k].stopped = FALSE]
  /\ UNCHANGED <<mq, zm, call, ensVars, procVars, clientVars, callerVars, histVars>>

\* stop_consuming(): `self.running = False`, then join(timeout=5), which
\* returns after five seconds whether or not the thread has ended. Nothing
\* in _consume_loop or consume_messages reads the flag.
StopConsuming(k) ==
  /\ consumers[k].running
  /\ consumers' = [consumers EXCEPT ![k].running = FALSE, ![k].stopped = TRUE]
  /\ UNCHANGED <<mq, zm, call, ensVars, procVars, clientVars, callerVars, histVars>>

\* A message reaches the topic / the queue of the consumer.
MessageArrives(k) ==
  /\ Len(consumers[k].pending) < MaxPending
  /\ consumers' = [consumers EXCEPT
                     ![k].pending = Append(@, consumers[k].stopped)]
  /\ UNCHANGED <<mq, zm, call, ensVars, procVars, clientVars, callerVars, histVars>>

\* The consume loop takes the next message and hands it to message_handler,
\* which calls the registered handlers.
Deliver(k) ==
  /\ consumers[k].threads > 0
  /\ consumers[k].pending # <<>>
  /\ consumers' = [consumers EXCEPT
                     ![k].pending = Tail(@),
                     ![k].handledLate = @ \/ Head(consumers[k].pending)]
  /\ UNCHANGED <<mq, zm, call, ensVars, procVars, clientVars, callerVars, histVars>>

\* consume_messages ends only when the broker fails it (max_messages is not
\* passed): _consume_loop logs the error and its finally clears `running`.
LoopFails(k) ==
  /\ consumers[k].threads > 0
  /\ consumers' = [consumers EXCEPT ![k].threads = @ - 1, ![k].running = FALSE]
  /\ UNCHANGED <<mq, zm, call, ensVars, procVars, clientVars, callerVars, histVars>>

\* -------------------------------------------------------------- TaskQueue
\* A routing key or a binding pattern is text: a sequence of tokens, "."
\* being the separator. str.split('.'): the segments between the dots.
RECURSIVE Split(_)
Split(text) ==
  IF \A i \in 1..Len(text) : text[i] # "."
    THEN <<text>>
    ELSE LET i == CHOOSE i \in 1..Len(text) :
                    text[i] = "." /\ \A j \in 1..(i - 1) : text[j] # "."
         IN <<SubSeq(text, 1, i - 1)>> \o Split(SubSeq(text, i + 1, Len(text)))

\* MessageConsumer._pattern_matches: equal texts match; a pattern with '*'
\* matches a key of as many segments whose segments are equal to the
\* pattern's wherever the pattern's is not '*'.
PatternMatches(pattern, routing_key) ==
  IF pattern = routing_key THEN TRUE
  ELSE IF \E i \in 1..Len(pattern) : pattern[i] = "*"
    THEN LET pattern_parts == Split(pattern)
             key_parts == Split(routing_key)
         IN /\ Len(pattern_parts) = Len(key_parts)
            /\ \A i \in 1..Len(pattern_parts) :
                 pattern_parts[i] = <<"*">> \/ pattern_parts[i] = key_parts[i]
    ELSE FALSE

\* TaskQueue.__init__ binds the queue "tasks" with the routing key 'task.*'.
TaskBinding == <<"task", ".", "*">>

\* enqueue_task: f"task.{task_name}.priority.{priority}".
TaskRoutingKey(task_name, priority) ==
  <<"task", ".">> \o task_name \o <<".", "priority", ".">> \o <<priority>>

TaskNames == {<<"cleanup">>, <<"send_email">>, <<"reports", ".", "daily">>}
Priorities == {"1", "5"}
\* Keys published straight through publish_message.
DirectKeys ==
  {<<"task", ".", "cleanup">>, <<"task", ".", "send_email">>,
   <<"user", ".", "created">>}

\* The queue as declared: empty; nothing published.
NewQueue == [queue |-> <<>>, published |-> 0]

\* The exchange routes a message to the queue when the binding matches its
\* routing key.
Routed(routing_key) ==
  [queue |-> IF PatternMatches(TaskBinding, routing_key)
               THEN Append(mq.queue, routing_key) ELSE mq.queue,
   published |-> mq.published + 1]

\* RabbitMQClient.publish_message(routing_key, message).
PublishMessage(routing_key) ==
  /\ mq.published < MaxPublished
  /\ mq' = Routed(routing_key)
  /\ last' = [op |-> "publish_message", key |-> routing_key,
              matches |-> PatternMatches(TaskBinding, routing_key),
              queued |-> Len(mq'.queue) - Len(mq.queue)]
  /\ UNCHANGED <<consumers, zm, call, ensVars, procVars, clientVars, callerVars,
                 holding, invoked, written, registered>>

\* TaskQueue.enqueue_task(task_name, priority=priority).
EnqueueTask(task_name, priority) ==
  /\ mq.published < MaxPublished
  /\ mq' = Routed(TaskRoutingKey(task_name, priority))
  /\ last' = [op |-> "enqueue_task", key |-> TaskRoutingKey(task_name, priority),
              matches |-> PatternMatches(TaskBinding, TaskRoutingKey(task_name, priority)),
              queued |-> Len(mq'.queue) - Len(mq.queue)]
  /\ UNCHANGED <<consumers, zm, call, ensVars, procVars, clientVars, callerVars,
                 holding, invoked, written, registered>>

\* process_tasks: consume_messages takes the next message of the queue.
ProcessTasks ==
  /\ mq.queue # <<>>
  /\ mq' = [mq EXCEPT !.queue = Tail(@)]
  /\ last' = [op |-> "process_tasks", key |-> Head(mq.queue)]
  /\ UNCHANGED <<consumers, zm, call, ensVars, procVars, clientVars, callerVars,
                 holding, invoked, written, registered>>

\* ------------------------------------------------------- ZookeeperManager
\* zookeeper_integration.ZookeeperManager keeps one configuration key under
\* <namespace>/config in the ensemble and a copy in the local cache
\* (cache key zk_config_<key>, timeout 300). `node` is the key's node in the
\* ensemble, `watching` says watch_config has put a DataWatch on it,
\* `pending` that a change has not been notified yet, `changed` that another
\* process changed or deleted the key since the watch was set.
NoData == [j |-> "nonode", s |-> ""]

ManagerValues == {PyInt("1"), PyInt("2")}
ManagerDefaults == {PyNone, PyStr("off")}

\* __init__: no client, not connected; nothing cached.
NewManager ==
  [connected |-> FALSE, node |-> NoData, cache |-> PyNone,
   watching |-> FALSE, pending |-> FALSE, changed |-> FALSE]

\* ZookeeperManager.connect(), the ensemble being up.
ManagerConnect ==
  /\ ~zm.connected
  /\ zm' = [zm EXCEPT !.connected = TRUE]
  /\ last' = [op |-> "zm.connect"]
  /\ UNCHANGED <<consumers, mq, call, ensVars, procVars, clientVars, callerVars,
                 holding, invoked, written, registered>>

\* watch_func(data, stat, event) of watch_config: `if data:` the parsed
\* value replaces the cached one; nothing is done when the node is gone,
\* holds no bytes or holds no JSON.
CacheAfterWatch ==
  IF zm.node = NoData \/ zm.node = EmptyData
       \/ json_loads(zm.node).t = "JSONDecodeError"
    THEN zm.cache
    ELSE json_loads(zm.node)

\* ZookeeperManager.set_config(key, value): False when not connected; else
\* the node is set or created and the cache updated.
ManagerSetConfig(value) ==
  /\ zm' = IF zm.connected
             THEN [zm EXCEPT !.node = json_dumps(value), !.cache = value,
                             !.pending = zm.watching]
             ELSE zm
  /\ last' = [op |-> "zm.set_config", value |-> PyBool(zm.connected)]
  /\ UNCHANGED <<consumers, mq, call, ensVars, procVars, clientVars, callerVars,
                 holding, invoked, written, registered>>

\* What get_config(key, default) returns: the cached value when there is
\* one; else the default when not connected, when the node is absent or
\* holds no JSON; else the parsed payload.
ManagerGetResult(default) ==
  IF zm.cache # PyNone THEN zm.cache
  ELSE IF ~zm.connected \/ zm.node = NoData THEN default
  ELSE IF json_loads(zm.node).t = "JSONDecodeError" THEN default
  ELSE json_loads(zm.node)

\* ZookeeperManager.get_config(key, default); a value read from the ensemble
\* is cached.
ManagerGetConfig(default) ==
  /\ zm' = IF zm.cache = PyNone /\ zm.connected /\ zm.node # NoData
                /\ json_loads(zm.node).t # "JSONDecodeError"
             THEN [zm EXCEPT !.cache = json_loads(zm.node)]
             ELSE zm
  /\ last' = [op |-> "zm.get_config", default |-> default,
              value |-> ManagerGetResult(default), node |-> zm.node,
              watched |-> zm.watching, changed |-> zm.changed,
              notified |-> ~zm.pending]
  /\ UNCHANGED <<consumers, mq, call, ensVars, procVars, clientVars, callerVars,
                 holding, invoked, written, registered>>

\* watch_config(key, callback): False when not connected; else DataWatch
\* calls watch_func at once with the node's data and again on every change.
ManagerWatchConfig ==
  /\ zm' = IF zm.connected
             THEN [zm EXCEPT !.watching = TRUE, !.pending = FALSE,
                             !.changed = FALSE, !.cache = CacheAfterWatch]
             ELSE zm
  /\ last' = [op |-> "zm.watch_config", value |-> PyBool(zm.connected)]
  /\ UNCHANGED <<consumers, mq, call, ensVars, procVars, clientVars, callerVars,
                 holding, invoked, written, registered>>

\* The DataWatch is notified of a change: it reads the node again and calls
\* watch_func with what it holds now.
ManagerWatchFires ==
  /\ zm.pending
  /\ zm' = [zm EXCEPT !.pending = FALSE, !.cache = CacheAfterWatch]
  /\ last' = [op |-> "zm.watch_func"]
  /\ UNCHANGED <<consumers, mq, call, ensVars, procVars, clientVars, callerVars,
                 holding, invoked, written, registered>>

\* The cache drops the entry when its timeout of 300 seconds has passed.
ManagerCacheExpires ==
  /\ zm.cache # PyNone
  /\ zm' = [zm EXCEPT !.cache = PyNone]
  /\ last' = [op |-> "cache.expire"]
  /\ UNCHANGED <<consumers, mq, call, ensVars, procVars, clientVars, callerVars,
                 holding, invoked, written, registered>>

\* Another process sets the key.
OtherSetsConfig(value) ==
  /\ zm.node # json_dumps(value)
  /\ zm' = [zm EXCEPT !.node = json_dumps(value), !.pending = zm.watching,
                      !.changed = zm.watching]
  /\ last' = [op |-> "other.set_config"]
  /\ UNCHANGED <<consumers, mq, call, ensVars, procVars, clientVars, callerVars,
                 holding, invoked, written, registered>>

\* Another process deletes the key.
OtherDeletesConfig ==
  /\ zm.node # NoData
  /\ zm' = [zm EXCEPT !.node = NoData, !.pending = zm.watching,
                      !.changed = zm.watching]
  /\ last' = [op |-> "other.delete"]
  /\ UNCHANGED <<consumers, mq, call, ensVars, procVars, clientVars, callerVars,
                 holding, invoked, written, registered>>

\* ------------------------------------------ ZookeeperClient, step by step
\* set_config is two requests to the ensemble, client.exists(path) and then
\* client.set() or client.create(); other clients' requests can be served
\* between the two. `call[p]` is the call process p is in the middle of.

\* set_config(path, data) up to the answer of client.exists(path). With the
\* ensemble away connect() or exists() raises and the call is over.
SetConfigExists(p, path, data) ==
  /\ call[p] = NoCall
  /\ ConnectOnUse(p)
  /\ call' = IF reachable
               THEN [call EXCEPT ![p] = [op |-> "set_config", path |-> path,
                                         data |-> data, exists |-> Exists(path)]]
               ELSE call
  /\ last' = IF reachable
               THEN [op |-> "set_config.exists", proc |-> p, path |-> path]
               ELSE [op |-> "set_config.return", proc |-> p, path |-> path,
                     data |-> data, up |-> FALSE, raised |-> TRUE,
                     error |-> "ConnectionLoss", after |-> NoNode]
  /\ UNCHANGED <<consumers, mq, zm, clientVars, ensVars, callerVars,
                 holding, invoked, written, registered>>

\* What the second request of set_config raises: set() on a node that is
\* gone NoNodeError, create() of a node that is there NodeExistsError.
SetConfigError(c) ==
  IF ~reachable THEN "ConnectionLoss"
  ELSE IF c.exists /\ ~Exists(c.path) THEN "NoNodeError"
  ELSE IF ~c.exists /\ Exists(c.path) THEN "NodeExistsError"
  ELSE "none"

\* set_config from the answer of exists() to its return: set() or create()
\* as exists() answered; what they raise is logged and re-raised.
SetConfigWrite(p) ==
  /\ call[p] # NoCall /\ call[p].op = "set_config"
  /\ znodes' = IF SetConfigError(call[p]) = "none"
                 THEN SetConfigNodes(call[p].path, call[p].data, FALSE, Session(p))
                 ELSE znodes
  /\ call' = [call EXCEPT ![p] = NoCall]
  /\ last' = [op |-> "set_config.return", proc |-> p, path |-> call[p].path,
              data |-> call[p].data, up |-> reachable,
              raised |-> SetConfigError(call[p]) # "none",
              error |-> SetConfigError(call[p]),
              after |-> IF call[p].path \in DOMAIN znodes'
                          THEN znodes'[call[p].path] ELSE NoNode]
  /\ UNCHANGED <<consumers, mq, zm, clientVars, procVars, lockNodes, nextSeq,
                 reachable, watch, callerVars, holding, invoked, written, registered>>

\* ZookeeperClient.delete_node(path) in process p: one request; NoNodeError
\* is swallowed, the rest re-raised.
DeleteNode(p, path) ==
  /\ call[p] = NoCall
  /\ ConnectOnUse(p)
  /\ znodes' = IF reachable THEN DeleteNodeNodes(path) ELSE znodes
  /\ last' = [op |-> "delete_node", proc |-> p, path |-> path, up |-> reachable,
              raised |-> ~reachable]
  /\ UNCHANGED <<auxVars, clientVars, lockNodes, nextSeq, reachable, watch,
                 callerVars, holding, invoked, written, registered>>

\* discover_services is a listing, client.get_children(service_path), and
\* then one get_config per child listed; registrations and deregistrations
\* of other clients can be served in between. In `call[p]`, `todo` are the
\* children still to read and `services` the list built so far; `some` is
\* the history of the call - every <<node, payload>> that existed at some
\* moment since the listing - and `all` the nodes there at every moment.
Observe(c, tree) ==
  IF c = NoCall \/ c.op # "discover_services" THEN c
  ELSE LET now == {q \in DOMAIN tree : Len(q) = 3 /\ SubSeq(q, 1, 2) = ServicePath(c.name)}
       IN [c EXCEPT !.some = @ \cup {<<q, tree[q].data>> : q \in now},
                    !.all = @ \cap now]

\* Mutant: what get_config returned is appended whatever it is.
ServicesAfterUnchecked(services, service_data) == Append(services, service_data)

\* `if service_data: services.append(service_data)`
ServicesAfter(services, service_data) ==
  IF Truthy(service_data) THEN Append(services, service_data) ELSE services

\* discover_services(name) up to the answer of get_children. connect() sits
\* before the try; with no answer from the ensemble, or no service node,
\* the call returns [] at once.
DiscoverChildren(p, name) ==
  /\ call[p] = NoCall
  /\ ConnectOnUse(p)
  /\ IF reachable /\ Exists(ServicePath(name))
       THEN /\ \E order \in Orderings(Children(ServicePath(name))) :
                 call' = [call EXCEPT ![p] =
                            [op |-> "discover_services", name |-> name,
                             todo |-> order, services |-> <<>>,
                             listed |-> Children(ServicePath(name)),
                             some |-> {<<q, znodes[q].data>> :
                                         q \in Children(ServicePath(name))},
                             all |-> Children(ServicePath(name))]]
            /\ last' = [op |-> "get_children", proc |-> p, name |-> name]
       ELSE /\ call' = call
            /\ last' = [op |-> "discover_services", proc |-> p, name |-> name,
                        up |-> reachable, raised |-> ConnectFails(p),
                        value |-> <<>>, listed |-> {}, some |-> {}, all |-> {}]
  /\ UNCHANGED <<consumers, mq, zm, clientVars, ensVars, callerVars,
                 holding, invoked, written, registered>>

\* The loop body: get_config of the next child listed, appended if truthy.
DiscoverChild(p) ==
  /\ call[p] # NoCall /\ call[p].op = "discover_services"
  /\ call[p].todo # <<>>
  /\ call' = [call EXCEPT
                ![p].todo = Tail(@),
                ![p].services = ServicesAfter(@, GetConfig(Head(call[p].todo), PyNone))]
  /\ last' = [op |-> "get_config.child", proc |-> p, path |-> Head(call[p].todo)]
  /\ UNCHANGED <<consumers, mq, zm, clientVars, ensVars, procVars, callerVars,
                 holding, invoked, written, registered>>

\* `return services`, every child read.
DiscoverReturn(p) ==
  /\ call[p] # NoCall /\ call[p].op = "discover_services"
  /\ call[p].todo = <<>>
  /\ call' = [call EXCEPT ![p] = NoCall]
  /\ last' = [op |-> "discover_services", proc |-> p, name |-> call[p].name,
              up |-> reachable, raised |-> FALSE,
              value |-> call[p].services, listed |-> call[p].listed,
              some |-> call[p].some, all |-> call[p].all]
  /\ UNCHANGED <<consumers, mq, zm, clientVars, ensVars, procVars, callerVars,
                 holding, invoked, written, registered>>

\* register_service by process p while discoveries are under way.
RegisterDuring(p, name, host, port, metadata) ==
  /\ ConnectOnUse(p)
  /\ znodes' = IF reachable
                 THEN RegisterServiceNodes(name, host, port, metadata,
                                           SessionAfterConnect(p))
                 ELSE znodes
  /\ registered' = IF reachable
                     THEN registered \cup {[inst |-> Instance(name, host, port),
                                            session |-> SessionAfterConnect(p)]}
                     ELSE registered
  /\ last' = [op |-> "register_service", proc |-> p, name |-> name,
              up |-> reachable, raised |-> ~reachable]
  /\ call' = [q \in Procs |-> Observe(call[q], znodes')]
  /\ UNCHANGED <<consumers, mq, zm, clientVars, watch, lockNodes, nextSeq,
                 reachable, callerVars, holding, invoked, written>>

\* unregister_service by process p while discoveries are under way.
UnregisterDuring(p, name, host, port) ==
  /\ ConnectOnUse(p)
  /\ znodes' = IF reachable THEN DeleteNodeNodes(NodePath(name, host, port)) ELSE znodes
  /\ registered' = IF reachable
                     THEN {r \in registered : r.inst # Instance(name, host, port)}
                     ELSE registered
  /\ last' = [op |-> "unregister_service", proc |-> p, name |-> name,
              up |-> reachable, raised |-> FALSE]
  /\ call' = [q \in Procs |-> Observe(call[q], znodes')]
  /\ UNCHANGED <<consumers, mq, zm, clientVars, watch, lockNodes, nextSeq,
                 reachable, callerVars, holding, invoked, written>>

\* ---------------------------------------------------------- specification
Init ==
  /\ znodes = [q \in {} |-> 0]
  /\ lockNodes = {}
  /\ nextSeq = 1
  /\ reachable = TRUE
  /\ watch = [k \in Keys |-> NoWatch]
  /\ connected = [p \in Procs |-> FALSE]
  /\ zkClient = [p \in Procs |-> 0]
  /\ handle = [c \in Callers |-> 0]
  /\ started = {}
  /\ epoch = [p \in Procs |-> 0]
  /\ pc = [c \in Callers |-> "idle"]
  /\ op = [c \in Callers |-> "none"]
  /\ acquired = [c \in Callers |-> FALSE]
  /\ myNode = [c \in Callers |-> 0]
  /\ result = [c \in Callers |-> "none"]
  /\ holding = [c \in Callers |-> FALSE]
  /\ invoked = 0
  /\ last = NoCall
  /\ written = [k \in Keys |-> NeverSet]
  /\ registered = {}
  /\ consumers = [k \in Consumers |-> NewConsumer]
  /\ mq = NewQueue
  /\ zm = NewManager
  /\ call = [p \in Procs |-> NoCall]

\* The task coordinator: threads of several processes call run_once() again
\* and again, task_func returns or raises, waits time out, sessions expire.
Next ==
  \/ \E c \in Callers :
       \/ RunOnce(c)
       \/ Grant(c)
       \/ Timeout(c)
       \/ Recontend(c)
       \/ CheckCompleted(c)
       \/ TaskReturns(c)
       \/ TaskRaises(c)
       \/ RecordCompletion(c)
       \/ ExitLock(c)
  \/ \E p \in Procs : Expire(p)

Spec == Init /\ [][Next]_vars

\* The lock alone: every thread has one DistributedLock object and calls
\* acquire() and release() on it in any order.
NextLock ==
  \/ \E c \in Callers :
       \/ Acquire(c)
       \/ Release(c)
       \/ Grant(c)
       \/ Timeout(c)
       \/ Recontend(c)
  \/ \E p \in Procs : Expire(p)

SpecLock == Init /\ [][NextLock]_vars

\* K callers call run_once once each, task_func succeeds, no session is lost
\* and no wait times out while a thread ahead in the queue is still at work.
RunOnceFirst(c) == result[c] = "none" /\ RunOnce(c)

NextOnce ==
  \E c \in Callers :
    \/ RunOnceFirst(c)
    \/ Grant(c)
    \/ LateTimeout(c)
    \/ CheckCompleted(c)
    \/ TaskReturns(c)
    \/ RecordCompletion(c)
    \/ ExitLock(c)

SpecOnce == Init /\ [][NextOnce]_vars

\* The configuration store: processes set, get, remove and list settings while
\* the ensemble comes and goes.
NextConfig ==
  \/ \E p \in Procs, k \in Keys :
       \/ \E v \in SettingValues : SetSetting(p, k, v)
       \/ \E d \in Defaults : GetSetting(p, k, d)
       \/ RemoveSetting(p, k)
  \/ \E p \in Procs : GetAllSettings(p)
  \/ Outage

SpecConfig == Init /\ [][NextConfig]_vars

\* The service registry: processes register, discover and unregister
\* instances; sessions end by disconnect() or by expiry.
NextRegistry ==
  \/ \E p \in Procs, n \in ServiceNames :
       \/ \E h \in Hosts, port \in Ports :
            \/ \E md \in Metadata : RegisterService(p, n, h, port, md)
            \/ UnregisterService(p, n, h, port)
       \/ DiscoverService(p, n)
  \/ \E p \in Procs : Disconnect(p) \/ Expire(p)
  \/ Outage

SpecRegistry == Init /\ [][NextRegistry]_vars

\* acquire() called while the ensemble is away.
AcquireOffline(c) == ~reachable /\ Acquire(c)

\* The three layers used while the ensemble comes and goes and clients
\* disconnect: one setting and one instance are there to be found.
NextDegraded ==
  \/ \E p \in Procs :
       \/ SetSetting(p, "feature_x", PyBool(TRUE))
       \/ \E d \in Defaults : GetSetting(p, "feature_x", d)
       \/ RegisterService(p, "backend", "web-1", "8000", PyNone)
       \/ DiscoverService(p, "backend")
       \/ Disconnect(p)
  \/ \E c \in Callers : AcquireOffline(c)
  \/ Outage

SpecDegraded == Init /\ [][NextDegraded]_vars

\* A task that is run, reset and run again: threads call run_once() and
\* reset_task() in any order, task_func succeeds, no session is lost and no
\* wait times out while a thread ahead in the queue is still at work.
NextReset ==
  \E c \in Callers :
    \/ RunOnce(c)
    \/ Grant(c)
    \/ LateTimeout(c)
    \/ CheckCompleted(c)
    \/ TaskReturns(c)
    \/ RecordCompletion(c)
    \/ ExitLock(c)
    \/ ResetTask(c)

SpecReset == Init /\ [][NextReset]_vars

\* A watched setting: one process registers a callback with watch_setting,
\* processes go on setting the value, and every notification on its way is
\* delivered in the end.
WatchedValues == {PyBool(TRUE), PyInt("20")}

NextWatch ==
  \/ \E p \in Procs, k \in Keys :
       \/ \E v \in WatchedValues : SetSetting(p, k, v)
       \/ WatchSetting(p, k)
  \/ \E k \in Keys : DeliverEvent(k)

SpecWatch ==
  Init /\ [][NextWatch]_vars /\ \A k \in Keys : WF_vars(DeliverEvent(k))

\* The components of a process being constructed by its threads, each getting
\* its client from get_zk_client() and connecting on first use.
NextClient ==
  \E c \in Callers :
    \/ GetZkClientTest(c)
    \/ GetZkClientAssign(c)
    \/ GetZkClientReturn(c)
    \/ ConnectOnFirstUse(c)

SpecClient == Init /\ [][NextClient]_vars

\* The life of a client: processes connect and disconnect explicitly, in any
\* order and any number of times, register an instance in between, sessions
\* expire and the ensemble comes and goes.
NextSession ==
  \/ \E p \in Procs :
       \/ Connect(p)
       \/ Disconnect(p)
       \/ RegisterService(p, "backend", "web-1", "8000", PyNone)
       \/ Expire(p)
  \/ Outage

SpecSession == Init /\ [][NextSession]_vars

\* set_config used directly: processes write two nodes with either value of
\* `ephemeral`, sessions end by disconnect() or expiry, the ensemble comes and
\* goes.
StorePaths == {<<"app", "primary">>, <<"app", "owner">>}
StoreData == {PyDict([k \in {"n"} |-> PyInt("1")]), PyDict([k \in {"n"} |-> PyInt("2")])}

NextStore ==
  \/ \E p \in Procs :
       \/ \E path \in StorePaths, data \in StoreData, ephemeral \in BOOLEAN :
            SetConfig(p, path, data, ephemeral)
       \/ Disconnect(p)
       \/ Expire(p)
  \/ Outage

SpecStore == Init /\ [][NextStore]_vars

\* get_config used directly: processes write nodes and read them, their
\* parent (made by makepath, with no data) and a path nobody writes.
ReadPaths == StorePaths \cup {<<"app">>, <<"app", "missing">>}
ReadDefaults == {PyNone, EmptyDict}

NextRead ==
  \/ \E p \in Procs :
       \/ \E path \in StorePaths, data \in StoreData : SetConfig(p, path, data, FALSE)
       \/ \E path \in ReadPaths, d \in ReadDefaults : GetConfigCall(p, path, d)
  \/ Outage

SpecRead == Init /\ [][NextRead]_vars

\* Service URLs: instances register, one of them with port 0, and callers
\* ask for the URL of the service.
UrlInstances == {<<"web-1", "0">>, <<"web-2", "8000">>}
Protocols == {"http", "https"}

NextUrl ==
  \/ \E p \in Procs :
       \/ \E i \in UrlInstances :
            \/ RegisterService(p, "backend", i[1], i[2], PyNone)
            \/ UnregisterService(p, "backend", i[1], i[2])
       \/ \E protocol \in Protocols : GetServiceUrl(p, "backend", protocol)
  \/ Outage

SpecUrl == Init /\ [][NextUrl]_vars

\* The consumers: they are started and stopped, messages arrive, the loops
\* deliver them; a loop that can deliver does.
NextConsumer ==
  \E k \in Consumers :
    \/ StartConsuming(k)
    \/ StopConsuming(k)
    \/ MessageArrives(k)
    \/ Deliver(k)
    \/ LoopFails(k)

SpecConsumer ==
  Init /\ [][NextConsumer]_vars /\ \A k \in Consumers : WF_vars(Deliver(k))

\* The task queue: tasks are enqueued, messages are published with other
\* keys, process_tasks consumes what reached the queue.
NextTasks ==
  \/ \E task_name \in TaskNames, priority \in Priorities :
       EnqueueTask(task_name, priority)
  \/ \E routing_key \in DirectKeys : PublishMessage(routing_key)
  \/ ProcessTasks

SpecTasks == Init /\ [][NextTasks]_vars

\* ZookeeperManager and its cache, with another process writing the key.
NextManager ==
  \/ ManagerConnect
  \/ \E value \in ManagerValues :
       \/ ManagerSetConfig(value)
       \/ OtherSetsConfig(value)
  \/ \E default \in ManagerDefaults : ManagerGetConfig(default)
  \/ ManagerWatchConfig
  \/ ManagerWatchFires
  \/ ManagerCacheExpires
  \/ OtherDeletesConfig

SpecManager == Init /\ [][NextManager]_vars

\* The completion record under outages: threads call run_once(), task_func
\* returns or raises, and the ensemble goes away and comes back at any time.
NextRecord ==
  \/ \E c \in Callers :
       \/ RunOnce(c)
       \/ Grant(c)
       \/ CheckCompleted(c)
       \/ TaskReturns(c)
       \/ TaskRaises(c)
       \/ RecordCompletion(c)
       \/ ExitLock(c)
  \/ Outage

SpecRecord == Init /\ [][NextRecord]_vars

\* Clients race on a node: each sets it, in two requests, or deletes it.
RacePath == <<"app", "primary">>

NextRace ==
  \E p \in Procs :
    \/ \E data \in StoreData : SetConfigExists(p, RacePath, data)
    \/ SetConfigWrite(p)
    \/ DeleteNode(p, RacePath)

SpecRace == Init /\ [][NextRace]_vars

\* Discovery under churn: one process lists the instances of a service
\* again and again while another registers them, with one metadata or
\* another, and unregisters them.
Discoverer == CHOOSE p \in Procs : \A q \in Procs : p <= q

NextDiscover ==
  \/ DiscoverChildren(Discoverer, "backend")
  \/ DiscoverChild(Discoverer)
  \/ DiscoverReturn(Discoverer)
  \/ \E p \in Procs \ {Discoverer}, h \in Hosts :
       \/ \E md \in Metadata : RegisterDuring(p, "backend", h, "8000", md)
       \/ UnregisterDuring(p, "backend", h, "8000")

SpecDiscover == Init /\ [][NextDiscover]_vars

\* ------------------------------------------------------------ properties
Returned(c) == pc[c] = "idle" /\ result[c] # "none"

\* C1: mutual exclusion. Of the threads whose acquire() returned True and that
\* have neither called release() nor lost their session since, there is at
\* most one at any time.
C1_MutualExclusion ==
  \A c, d \in Callers : holding[c] /\ holding[d] => c = d

\* C1 witness: one thread holds the lock, another is blocked, a third has
\* had its acquire() return False.
C1_Witness ==
  \E c, d, e \in Callers :
    holding[c] /\ pc[d] = "waiting" /\ pc[e] = "idle" /\ result[e] = "False"

\* C2 (as claimed): once the K concurrent run_once calls have all returned,
\* task_func was invoked exactly once, the record says success, one caller
\* got task_func's result and each of the other K-1 got None.
C2_ExactlyOnceCompletion ==
  (\A c \in Callers : Returned(c)) =>
    /\ invoked = 1
    /\ Exists(CompletionPath)
    /\ json_loads(znodes[CompletionPath].data).items["success"] = PyBool(TRUE)
    /\ Cardinality({c \in Callers : result[c] = "value"}) = 1
    /\ \A c \in Callers : result[c] \in {"value", "None"}

\* C3 (as claimed): once a thread has left its `with distributed_lock(...)`
\* block, by whichever path, no contender node it created is left under the
\* lock path.
C3_ReleasedOnExit ==
  \A c \in Callers : pc[c] = "idle" => ~\E n \in lockNodes : n.caller = c

C5_NeitherRaises ==
  \A c \in Callers : Returned(c) => result[c] \in {"value", "None"}

C7_NotFoundIsDefault ==
  /\ (last.op = "get_setting" /\ last.up /\ (last.absent \/ last.wrote.st = "removed")) =>
       ~last.raised /\ last.value = last.default
  /\ (last.op = "remove_setting" /\ last.up /\ last.absent) =>
       ~last.raised /\ ~last.changed
  /\ (last.op = "get_all_settings" /\ last.up /\ last.absent) =>
       ~last.raised /\ DOMAIN last.value = {}

\* C7 witness: a setting was set and removed, and get_setting gives the
\* caller's default.
C7_Witness ==
  /\ last.op = "get_setting" /\ last.up /\ ~last.raised
  /\ last.wrote.st = "removed"
  /\ last.default = PyStr("fallback")
  /\ last.value = PyStr("fallback")

\* C8: ephemeral liveness. discover_service returns an instance only while a
\* session that registered it is still alive: once every session that
\* registered it has ended (disconnect or expiry), without any unregister, the
\* instance is in no later discovery.
C8_EphemeralLiveness ==
  last.op = "discover_service" =>
    \A i \in DOMAIN last.value : InstanceOf(last.name, last.value[i]) \in last.live

\* C8 witness: a session registered an instance and ended without
\* unregistering; a discovery by another process, answered by the ensemble,
\* does not list the instance.
C8_Witness ==
  /\ last.op = "discover_service" /\ last.up /\ ~last.raised
  /\ \E r \in registered :
       /\ ~Live(r)
       /\ r.session[1] # last.proc
       /\ r.inst.name = last.name
       /\ \A i \in DOMAIN last.value : InstanceOf(last.name, last.value[i]) # r.inst

\* C9 (as claimed): with no session and the ensemble away, so that connect()
\* fails, nothing is raised into the caller: get_setting returns the default,
\* discover_service returns [], acquire() returns False.
C9_DegradedNeverRaises ==
  /\ (last.op = "get_setting" /\ last.cf) => ~last.raised /\ last.value = last.default
  /\ (last.op = "discover_service" /\ last.cf) => ~last.raised /\ last.value = <<>>
  /\ \A c \in Callers : Returned(c) => result[c] = "False"

\* C10: discover_service gives [] and does not raise when no instance node of
\* the service exists: never registered, or all instances gone.
C10_DiscoverEmpty ==
  (last.op = "discover_service" /\ last.none) => ~last.raised /\ last.value = <<>>

\* C10 witness: instances were registered and are gone, the service node is
\* still there, and a discovery answered by the ensemble gives [].
C10_Witness ==
  /\ last.op = "discover_service" /\ last.up /\ last.none
  /\ Exists(ServicePath(last.name))
  /\ registered # {}
  /\ last.value = <<>>

\* The completion record as stored in the tree `t`, or None when there is none.
RecordIn(t) ==
  IF CompletionPath \in DOMAIN t THEN json_loads(t[CompletionPath].data) ELSE PyNone

\* C11 (as claimed): with the task lock held, run_once returns None without
\* invoking task_func exactly when a completion record with success=True
\* exists; with no record, or a record with success=False, it invokes task_func.
C11_ShortCircuitRule ==
  [][\A c \in Callers :
       (pc[c] = "locked" /\ pc'[c] # "locked") =>
         ((pc'[c] = "exiting" /\ result'[c] = "None" /\ invoked' = invoked)
            <=> (RecordIn(znodes).t = "dict"
                 /\ RecordIn(znodes).items["success"] = PyBool(TRUE)))]_vars

\* C12: outcome recording. When task_func returns, run_once leaves a record
\* with success=True and returns task_func's result; when task_func raises, it
\* leaves a record with success=False and the exception's text as error, and
\* the exception reaches the caller.
C12_OutcomeRecorded ==
  [][\A c \in Callers :
       /\ (pc[c] = "record_ok" /\ pc'[c] = "exiting") =>
            /\ RecordIn(znodes').t = "dict"
            /\ RecordIn(znodes').items["success"] = PyBool(TRUE)
            /\ result'[c] = "value"
       /\ (pc[c] = "record_failed" /\ pc'[c] = "exiting") =>
            /\ RecordIn(znodes').t = "dict"
            /\ RecordIn(znodes').items["success"] = PyBool(FALSE)
            /\ "error" \in DOMAIN RecordIn(znodes').items
            /\ RecordIn(znodes').items["error"] = PyStr(ErrorText)
            /\ result'[c] = "raised"]_vars

\* C12 witness: task_func raised, the record says success=False with the
\* exception's text, and the call is on its way out with the exception.
C12_Witness ==
  \E c \in Callers :
    /\ pc[c] = "exiting" /\ result[c] = "raised"
    /\ RecordIn(znodes).t = "dict"
    /\ RecordIn(znodes).items["success"] = PyBool(FALSE)
    /\ RecordIn(znodes).items["error"] = PyStr(ErrorText)

\* C13: when the lock is not acquired, run_once raises RuntimeError, task_func
\* is not invoked and the completion record is neither written nor changed.
C13_NoLockNoTask ==
  [][\A c \in Callers :
       (op[c] = "run_once" /\ pc[c] = "waiting" /\ pc'[c] # "waiting" /\ ~acquired'[c]) =>
         /\ pc'[c] = "idle"
         /\ result'[c] = "RuntimeError"
         /\ invoked' = invoked
         /\ znodes' = znodes]_vars

\* C13 witness: a run_once call has raised RuntimeError while another
\* thread's task_func is running and no record has been written.
C13_Witness ==
  \E c, d \in Callers :
    /\ pc[c] = "idle" /\ result[c] = "RuntimeError"
    /\ pc[d] = "running" /\ invoked = 1
    /\ ~Exists(CompletionPath)

\* C14 (as claimed): acquire() and acquire_lock() never raise, and after
\* acquire() has returned False the lock object is Unlocked: is_acquired() is
\* False.
C14_AcquireNeverRaises ==
  /\ last.op = "acquire_lock" => ~last.raised
  /\ \A c \in Callers :
       (op[c] = "acquire" /\ pc[c] = "idle" /\ result[c] = "False") => ~acquired[c]

\* C17: a timed-out acquire() leaks nothing. In the step in which acquire()
\* returns False on timeout, the contender node of that attempt is removed and
\* the caller does not become the holder; and a thread becomes the holder only
\* from inside an acquire() call.
C17_TimeoutLeaksNothing ==
  [][\A c \in Callers :
       /\ (pc[c] = "waiting" /\ pc'[c] = "idle" /\ result'[c] = "False") =>
            /\ ~\E n \in lockNodes' : n.seq = myNode[c]
            /\ ~acquired'[c]
            /\ holding'[c] = holding[c]
       /\ (~holding[c] /\ holding'[c]) => pc[c] = "waiting"]_vars

\* C17 witness: a thread's acquire() has timed out behind a holder; it is not
\* the holder and no contender node of its is left.
C17_Witness ==
  \E c, d \in Callers :
    /\ holding[d]
    /\ pc[c] = "idle" /\ result[c] = "False" /\ ~holding[c]
    /\ lockNodes # {}
    /\ ~\E n \in lockNodes : n.caller = c

\* C15 (as claimed): after reset_task() is_completed() is False and a
\* run_once begun after it, with no other call at work, does not end without
\* having had the lock, so that it invokes task_func again; reset_task() with
\* no record changes nothing and does not raise.
C15_ResetAllowsRerun ==
  [][/\ (last'.op = "reset_task" /\ last'.up) =>
          /\ ~last'.raised
          /\ ~last'.completed
          /\ last'.absent => ~last'.changed
     /\ \A c \in Callers :
          (/\ last.op = "reset_task" /\ ~last.raised
           /\ op[c] = "run_once" /\ pc[c] = "waiting" /\ myNode[c] >= last.seq
           /\ \A d \in Callers \ {c} : pc[d] = "idle")
          => pc'[c] # "idle"]_vars

\* C16 (as claimed): after one watch_setting registration, every committed
\* data change of the node is followed, in the end, by a call of the callback
\* with the value the node then has: the 2nd, 3rd, ... change as well as the
\* first.
C16_WatchesRearm ==
  \A k \in Keys : watch[k].dirty ~> ~watch[k].dirty

\* C18 (as claimed): the components of one process all hold the same client
\* object, and a process has at most one session open at any time, also when
\* its threads enter get_zk_client() and connect on first use concurrently.
C18_OneSessionPerProcess ==
  /\ \A c, d \in Callers :
       (ProcOf(c) = ProcOf(d) /\ handle[c] # 0 /\ handle[d] # 0) => handle[c] = handle[d]
  /\ \A p \in Procs : Cardinality(OpenSessions(p)) <= 1

\* C19: connect() on a client that is connected, its session live and the
\* ensemble answering, and disconnect() on a client that is not connected
\* raise nothing and leave the connected flag, the session and its ephemeral
\* nodes as they were: no second session is opened.
C19_ConnectDisconnectIdempotent ==
  /\ (last.op = "connect" /\ last.was /\ last.up) =>
       ~last.raised /\ last.after = last.before
  /\ (last.op = "disconnect" /\ ~last.was) =>
       ~last.raised /\ last.after = last.before

\* C19 witness: connect() was called on a connected client whose session owns
\* an ephemeral node, and the node and the session are as before.
C19_Witness ==
  /\ last.op = "connect" /\ last.was /\ last.up
  /\ last.before.nodes # {}
  /\ last.after.nodes = last.before.nodes
  /\ last.after.session = last.before.session

\* C20: set_config on an absent node creates it with the persistence mode
\* asked for; set_config on an existing node changes its data only: mode and
\* owning session stay as they were made, whatever `ephemeral` says, and no
\* other node changes.
C20_ModeFixedAtCreation ==
  (last.op = "set_config" /\ last.up) =>
    /\ ~last.raised
    /\ last.others
    /\ last.after.data = json_dumps(last.data)
    /\ last.after.owner = IF last.existed THEN last.before.owner
                          ELSE IF last.ephemeral THEN last.session ELSE Persistent

\* C20 witness: set_config(..., ephemeral=False) by one process on a node that
\* the live session of another process owns: new data, same owner.
C20_Witness ==
  /\ last.op = "set_config" /\ last.up /\ last.existed /\ ~last.ephemeral
  /\ last.before.owner # Persistent
  /\ last.before.owner[1] # last.proc
  /\ last.after.owner = last.before.owner
  /\ last.after.data # last.before.data

\* C21: a get_config(path, default) that the ensemble answers does not raise;
\* it returns default when the node is absent and when the node's payload is
\* not valid JSON, and the parsed payload in every other case.
C21_GetConfigDefault ==
  (last.op = "get_config" /\ last.up) =>
    /\ ~last.raised
    /\ last.value = IF last.absent \/ json_loads(last.payload).t = "JSONDecodeError"
                      THEN last.default
                      ELSE json_loads(last.payload)

\* C21 witness: the node is there, its payload is the empty byte string that
\* makepath leaves, and get_config gives the caller's default.
C21_Witness ==
  /\ last.op = "get_config" /\ last.up /\ ~last.absent
  /\ last.payload = EmptyData
  /\ last.default = EmptyDict
  /\ last.value = EmptyDict

\* C22 (as claimed): get_service_url returns None if and only if
\* discover_service yields no instances; otherwise it returns
\* protocol://host:port of the first discovered instance.
C22_UrlIffInstances ==
  last.op = "get_service_url" =>
    /\ ~last.raised
    /\ (last.value = PyNone) <=> (last.services = <<>>)
    /\ last.services # <<>> =>
         last.value = Url(last.protocol, DictGet(last.services[1], "host"),
                          DictGet(last.services[1], "port"))

\* C23: after stop_consuming() has returned, the consume loop eventually
\* stops - no thread of the consumer stays alive - and no handler is ever
\* invoked for a message that arrived after stop_consuming() returned.
C23_StopStopsLoop ==
  /\ \A k \in Consumers : consumers[k].stopped ~> (consumers[k].threads = 0)
  /\ [](\A k \in Consumers : ~consumers[k].handledLate)

\* C30: the routing key of every enqueued task matches the binding 'task.*'
\* under _pattern_matches, and the task reaches the queue that
\* process_tasks consumes.
C30_EnqueuedTaskRouted ==
  last.op = "enqueue_task" => last.matches /\ last.queued = 1

\* C24: once a watched key was changed or deleted by another process and the
\* watch callback has run, ZookeeperManager.get_config(key, d) returns what
\* the ensemble holds now, or d when the key was deleted - never the value
\* cached before.
C24_CacheFollowsWatch ==
  (last.op = "zm.get_config" /\ last.watched /\ last.changed /\ last.notified)
    => last.value = IF last.node = NoData THEN last.default
                                          ELSE json_loads(last.node)

\* C25: for every DistributedLock object with no call in progress,
\* is_acquired() is True exactly when a lock node created through that
\* object exists - after release(), after a second acquire(), after the
\* session was lost.
C25_IsAcquiredIffNode ==
  \A c \in Callers :
    pc[c] = "idle" => (acquired[c] <=> \E n \in lockNodes : n.caller = c)

\* C27: an instance registered by a session that is alive, and not
\* unregistered, is in what discover_service returns - also when an earlier
\* registrant of the same name, host and port has lost its session since.
C27_LiveRegistrantDiscoverable ==
  (last.op = "discover_service" /\ last.up /\ ~last.raised) =>
    \A inst \in last.live :
      inst.name = last.name =>
        \E i \in DOMAIN last.value : InstanceOf(last.name, last.value[i]) = inst

\* C28: a thread whose task_func returned normally never stores a
\* completion record with success=False, also when writing the success
\* record failed.
C28_FailureOnlyWhenTaskRaised ==
  [][\A c \in Callers :
       (pc[c] \in {"record_ok", "record_error"} /\ pc'[c] # pc[c] /\ znodes' # znodes)
         => RecordIn(znodes').items["success"] = PyBool(TRUE)]_vars

\* C26: set_config calls of different clients on one path, also on a node
\* that does not exist yet and with delete_node in between, return without
\* raising, and the node then holds a value one of them wrote.
C26_ConcurrentSetConfig ==
  (last.op = "set_config.return" /\ last.up) =>
    /\ ~last.raised
    /\ last.after.data \in {json_dumps(data) : data \in StoreData}

\* C29: discover_services running while instances register and unregister
\* does not raise and returns no instance twice; every entry returned is
\* the payload some node held at some moment of the call, and every
\* instance whose node was there during the whole call is returned.
C29_DiscoverUnderChurn ==
  last.op = "discover_services" =>
    /\ ~last.raised
    /\ \A i \in DOMAIN last.value :
         \E e \in last.some : last.value[i] = json_loads(e[2])
    /\ \A i, j \in DOMAIN last.value :
         InstanceOf(last.name, last.value[i]) = InstanceOf(last.name, last.value[j])
           => i = j
    /\ \A q \in last.all :
         \E i \in DOMAIN last.value :
           \E e \in last.some : e[1] = q /\ last.value[i] = json_loads(e[2])

\* C29 witness: of the two instances listed, one was unregistered during the
\* call and is not returned, the other was there throughout and is; a
\* payload written during the call exists besides.
C29_Witness ==
  /\ last.op = "discover_services" /\ ~last.raised
  /\ Cardinality(last.listed) = 2
  /\ Cardinality(last.all) = 1
  /\ Len(last.value) = 1
  /\ Cardinality(last.some) > 2

====
